---- MODULE Spec2Model ----
(***************************************************************************)
(* A model of statement_vtab.c: an SQLite virtual-table module that turns  *)
(* a parameterized, read-only SQL statement into a table whose result      *)
(* columns are output columns and whose bind parameters are hidden input   *)
(* columns.                                                                *)
(*                                                                         *)
(*   SpecPlan    xBestIndex on a candidate list, then one scan driven by   *)
(*               the plan (xOpen, xFilter, xNext, xColumn)                 *)
(*   Spec        two cursors on one table, every interleaving of xOpen,    *)
(*               xFilter, xNext, xColumn, xRowid, xEof, xClose             *)
(*   SpecCreate  xCreate / xConnect, one step per statement group          *)
(***************************************************************************)
EXTENDS Integers, Sequences, FiniteSets, TLC

(***************************************************************************)
(* Result codes and sentinel values.                                       *)
(***************************************************************************)
SQLITE_OK == "SQLITE_OK"
SQLITE_ERROR == "SQLITE_ERROR"
SQLITE_NOMEM == "SQLITE_NOMEM"
SQLITE_MISUSE == "SQLITE_MISUSE"
SQLITE_CONSTRAINT == "SQLITE_CONSTRAINT"
SQLITE_TOOBIG == "SQLITE_TOOBIG"
SQLITE_RANGE == "SQLITE_RANGE"
SQLITE_BUSY == "SQLITE_BUSY"
SQLITE_ROW == "SQLITE_ROW"
SQLITE_DONE == "SQLITE_DONE"
SQLITE_INDEX_CONSTRAINT_EQ == "EQ"
SQLITE_INDEX_CONSTRAINT_GT == "GT"

\* a NULL pointer, and the SQL NULL an unbound parameter or an unset result holds
NULL == 0
\* index_info->idxStr when no colmap is attached (a colmap is never empty)
NoMap == << >>
\* the content of memory sqlite3_malloc returned and nobody wrote yet
Junk == -1

\* number of bits of sqlite3_uint64 used_cols / required_cols
WordBits == 64

(***************************************************************************)
(* Bounds of the model.                                                    *)
(***************************************************************************)
\* longest candidate list the optimizer proposes (besides the long lists below)
MaxConstraints == 3
\* most rows one execution of the statement produces
MaxRows == 2
\* widest table whose scan is explored after planning
MaxScanColumns == 4
\* longest declaration argument (argv[3]) given to xCreate
MaxDeclLen == 4

(***************************************************************************)
(* xBestIndex (statement_vtab_best_index).  A sqlite3_uint64 bit mask is   *)
(* the set of its one-bits, a subset of 0..63.                             *)
(***************************************************************************)
NoUsage == [argvIndex |-> 0, omit |-> 0]

\* a planner that skips predicates on the rowid only
IsOutputConstraint_RowidOnly(c, num_outputs) == c.iColumn < 0

\* line 218: a constraint on an output column (or on the rowid, iColumn = -1)
IsOutputConstraint(c, num_outputs) == c.iColumn < num_outputs

\* a planner that takes every usable predicate, whatever its operator
IsInfeasible_AnyOperator(c) == ~c.usable

\* line 222
IsInfeasible(c) == ~c.usable \/ c.op # SQLITE_INDEX_CONSTRAINT_EQ

\* line 232: used_cols |= 1ull << col_index, guarded by col_index < 64
SetBit(used_cols, col_index) ==
    IF col_index < WordBits THEN used_cols \cup {col_index} ELSE used_cols

\* lines 229-230
NewColMax(col_max, col_index) ==
    IF col_index + 1 > col_max THEN col_index + 1 ELSE col_max

\* the largest element of a non-empty set of integers
Max(S) == CHOOSE x \in S : \A y \in S : y <= x

\* line 222-223: the first constraint at which the loop returns
\* SQLITE_CONSTRAINT, Len + 1 when it runs to its end
FirstInfeasible(aConstraint, num_outputs) ==
    LET bad == {i \in 1 .. Len(aConstraint) :
                   /\ ~IsOutputConstraint(aConstraint[i], num_outputs)
                   /\ IsInfeasible(aConstraint[i])}
    IN  IF bad = {} THEN Len(aConstraint) + 1
        ELSE CHOOSE i \in bad : \A j \in bad : i <= j

\* line 225
ColIndex(c, num_outputs) == c.iColumn - num_outputs

\* lines 226-227
ConsumedUsage(col_index) == [argvIndex |-> col_index + 1, omit |-> 1]

\* lines 216-235: the first loop.  It handles the constraints before the first
\* infeasible one in list order; seen are those it does not skip, and each
\* field below is what the loop body has accumulated over seen.
ScanConstraints(aConstraint, aConstraintUsage, num_outputs) ==
    LET stop == FirstInfeasible(aConstraint, num_outputs)
        seen == {i \in 1 .. stop - 1 :
                    ~IsOutputConstraint(aConstraint[i], num_outputs)}
        cols == {ColIndex(aConstraint[i], num_outputs) : i \in seen}
    IN  [rc |-> IF stop <= Len(aConstraint) THEN SQLITE_CONSTRAINT ELSE SQLITE_OK,
         usage |-> [i \in 1 .. Len(aConstraint) |->
                       IF i \in seen
                       THEN ConsumedUsage(ColIndex(aConstraint[i], num_outputs))
                       ELSE aConstraintUsage[i]],
         col_max |-> NewColMax(0, Max(cols \cup {-1})),
         used_cols |-> UNION {SetBit({}, c) : c \in cols},
         out_constraints |-> Cardinality(seen)]

\* line 242: (col_max < 64 ? 1ull << col_max : 0ull) - 1, in 64-bit arithmetic
required_cols(col_max) ==
    IF col_max < WordBits THEN 0 .. (col_max - 1) ELSE 0 .. (WordBits - 1)

\* an order test that looks at the highest column only, not at the mask
IsIdentityOrder_NoMask(acc) == acc.out_constraints = 0 \/ acc.col_max <= WordBits

\* line 243
IsIdentityOrder(acc) ==
    acc.out_constraints = 0
    \/ (acc.col_max <= WordBits /\ acc.used_cols = required_cols(acc.col_max))

\* lines 252-258: the second loop.  The k-th constraint, in list order, that
\* has an argvIndex gets argvIndex k, and colmap[k - 1] is its old argvIndex.
BuildColmap(usage) ==
    LET used == {i \in 1 .. Len(usage) : usage[i].argvIndex # 0}
        rank(i) == Cardinality({j \in used : j <= i})
    IN  [usage |-> [i \in 1 .. Len(usage) |->
                       IF i \in used THEN [usage[i] EXCEPT !.argvIndex = rank(i)]
                       ELSE usage[i]],
         colmap |-> [k \in 1 .. Cardinality(used) |->
                       usage[CHOOSE i \in used : rank(i) = k].argvIndex]]

\* lines 208-264; mallocOk: whether sqlite3_malloc64 of the colmap succeeds
statement_vtab_best_index(num_outputs, info, mallocOk) ==
    LET acc == ScanConstraints(info.aConstraint, info.aConstraintUsage, num_outputs)
        base == [info EXCEPT !.orderByConsumed = 0, !.estimatedCost = 1,
                             !.estimatedRows = 1,
                             !.aConstraintUsage = acc.usage]
        map == BuildColmap(acc.usage)
    IN  IF acc.rc # SQLITE_OK THEN [rc |-> acc.rc, info |-> base]
        ELSE IF IsIdentityOrder(acc) THEN [rc |-> SQLITE_OK, info |-> base]
        ELSE IF ~mallocOk THEN [rc |-> SQLITE_NOMEM, info |-> base]
        ELSE [rc |-> SQLITE_OK,
              info |-> [base EXCEPT !.aConstraintUsage = map.usage,
                                    !.idxStr = map.colmap,
                                    !.needToFreeIdxStr = 1]]

(***************************************************************************)
(* The prepared statement service (sqlite3_stmt), as the module uses it.   *)
(* A statement: live (prepared and not finalized), finalizes (number of    *)
(* sqlite3_finalize calls on it), nparams, bindings, busy (stepped to a    *)
(* row and neither done nor reset), nrows (rows produced by the current    *)
(* execution), row (the current row's content, NULL when not on a row),    *)
(* last (the result code of the last bind or step on it).                  *)
(***************************************************************************)
\* the content of the n-th row of an execution: a function of the bound
\* parameters (here of the number of bound ones and of the last one)
RowContent(s, n) ==
    1000 * Cardinality({p \in 1 .. s.nparams : s.bindings[p] # NULL})
    + 100 * (IF s.nparams > 0 THEN s.bindings[s.nparams] ELSE 0) + 10 * n
\* errors sqlite3_step may return
StepErrors == {SQLITE_BUSY}
\* errors sqlite3_bind_value may return for a valid index
BindErrors == {SQLITE_TOOBIG}
\* errors sqlite3_prepare_v2 may return
PrepareErrors == {SQLITE_ERROR}

\* a statement handle sqlite3_prepare_v2 has not returned yet
NoStmt ==
    [live |-> FALSE, finalizes |-> 0, nparams |-> 0, bindings |-> << >>,
     busy |-> FALSE, nrows |-> 0, row |-> NULL, last |-> SQLITE_OK]

NewStmt(nparams) ==
    [live |-> TRUE, finalizes |-> 0, nparams |-> nparams,
     bindings |-> [p \in 1 .. nparams |-> NULL],
     busy |-> FALSE, nrows |-> 0, row |-> NULL, last |-> SQLITE_OK]

sqlite3_reset(s) == [s EXCEPT !.busy = FALSE, !.nrows = 0, !.row = NULL]

\* a clear that leaves the bindings as they are
sqlite3_clear_bindings_Keeps(s) == s

sqlite3_clear_bindings(s) ==
    [s EXCEPT !.bindings = [p \in 1 .. s.nparams |-> NULL]]

\* err: the error the service reports for this call, SQLITE_OK when none
sqlite3_bind_value(s, idx, v, err) ==
    IF idx < 1 \/ idx > s.nparams
    THEN [stmt |-> [s EXCEPT !.last = SQLITE_RANGE], rc |-> SQLITE_RANGE]
    ELSE IF err # SQLITE_OK THEN [stmt |-> [s EXCEPT !.last = err], rc |-> err]
    ELSE [stmt |-> [s EXCEPT !.bindings[idx] = v, !.last = SQLITE_OK],
          rc |-> SQLITE_OK]

\* the results sqlite3_step may have on s: a further row while the execution
\* has produced fewer than MaxRows, the end of the rows, or an error
StepResults(s) ==
    (IF (IF s.busy THEN s.nrows ELSE 0) < MaxRows THEN {SQLITE_ROW} ELSE {})
    \cup {SQLITE_DONE} \cup StepErrors

\* a step on a statement that is not busy starts a new execution
sqlite3_step(s, res) ==
    IF res = SQLITE_ROW
    THEN [s EXCEPT !.busy = TRUE,
                   !.row = RowContent(s, (IF s.busy THEN s.nrows ELSE 0) + 1),
                   !.nrows = (IF s.busy THEN s.nrows ELSE 0) + 1,
                   !.last = res]
    ELSE [s EXCEPT !.busy = FALSE, !.row = NULL, !.last = res]

sqlite3_stmt_busy(s) == s.busy

sqlite3_column_value(s, i) == IF s.busy THEN s.row + i ELSE NULL

sqlite3_finalize(s) == [s EXCEPT !.live = FALSE, !.finalizes = @ + 1, !.busy = FALSE]

(***************************************************************************)
(* Heap buffers (param_argv): live, frees (number of sqlite3_free calls),  *)
(* slots (a sequence of sqlite3_value pointers, modelled by their values). *)
(***************************************************************************)
\* a buffer sqlite3_malloc has not returned yet
NoBuf == [live |-> FALSE, frees |-> 0, slots |-> << >>]

NewBuf(n) == [live |-> TRUE, frees |-> 0, slots |-> [i \in 1 .. n |-> Junk]]

sqlite3_free(b) == [b EXCEPT !.live = FALSE, !.frees = @ + 1]

(***************************************************************************)
(* State.                                                                  *)
(*   vtab        struct statement_vtab: num_inputs, num_outputs            *)
(*   index_info  the sqlite3_index_info of the planning call               *)
(*   planRc      what xBestIndex returned, "none" before the call          *)
(*   cursors     struct statement_cursor per cursor; mem is the state of   *)
(*               its allocation ("none", "live", "freed"), stmt and        *)
(*               param_argv are handles into stmts and bufs (NULL: none)   *)
(*   stmts, bufs the statement instances and argument buffers, by handle;  *)
(*               the xOpen call for cursor k is given the handles k                *)
(*   host        where the host is in each cursor's call sequence          *)
(*   ret         per cursor, the result code of the last call that may     *)
(*               change the cursor (xOpen, xFilter, xNext, xClose)         *)
(*   out         the last call: the cursor it was on (cur) and, for a read *)
(*               (op "column", "rowid", "eof"), the column and the value   *)
(*               handed back; op is "call" for every other call            *)
(*   fault       "none", or how the process left defined behaviour         *)
(*   cr          the state of the xCreate call                             *)
(***************************************************************************)
VARIABLES vtab, index_info, planRc, cursors, stmts, bufs, host, ret, out, fault, cr

vars == <<vtab, index_info, planRc, cursors, stmts, bufs, host, ret, out, fault, cr>>

CursorIds == {1, 2}

NoCursor ==
    [mem |-> "none", stmt |-> NULL, rowid |-> 0, param_argc |-> 0, param_argv |-> NULL]

NoOut == [op |-> "none", cur |-> 0, col |-> 0, val |-> NULL]

\* out after a call on cursor k that hands back no value (k = 0: on the table)
Called(k) == [op |-> "call", cur |-> k, col |-> 0, val |-> NULL]

NoIndexInfo ==
    [aConstraint |-> << >>, aConstraintUsage |-> << >>, idxStr |-> NoMap,
     needToFreeIdxStr |-> 0, orderByConsumed |-> 0, estimatedCost |-> 0,
     estimatedRows |-> 0]

(***************************************************************************)
(* The cursor handlers, as functions of the state they read.               *)
(***************************************************************************)
\* line 143: sqlite3_malloc(sizeof(*cur->param_argv) * num_inputs) returns NULL
\* for a size of 0 and when the allocation fails
AllocArgv(num_inputs, bufOk) == num_inputs > 0 /\ bufOk

\* a prepare that hands every cursor the same statement instance
PreparedHandle_Shared(fresh, prepRc) == IF prepRc = SQLITE_OK THEN 1 ELSE NULL

\* line 144: sqlite3_prepare_v2 stores a statement instance of its own for
\* every call (fresh: the handle the service has for this call), NULL on error
PreparedHandle(fresh, prepRc) == IF prepRc = SQLITE_OK THEN fresh ELSE NULL

\* lines 136-145; fresh: the handle of the objects this call is given, curOk,
\* bufOk: whether the two allocations succeed, prepRc: what sqlite3_prepare_v2
\* returns.  rowid and param_argc are never written.
statement_vtab_open(vt, ss, bb, fresh, curOk, bufOk, prepRc) ==
    IF ~curOk
    THEN [rc |-> SQLITE_NOMEM, cur |-> NoCursor, stmts |-> ss, bufs |-> bb]
    ELSE [rc |-> prepRc,
          cur |-> [mem |-> "live",
                   stmt |-> PreparedHandle(fresh, prepRc),
                   rowid |-> Junk,
                   param_argc |-> Junk,
                   param_argv |-> IF AllocArgv(vt.num_inputs, bufOk)
                                  THEN fresh ELSE NULL],
          stmts |-> IF PreparedHandle(fresh, prepRc) # NULL
                    THEN [ss EXCEPT ![PreparedHandle(fresh, prepRc)] =
                                        NewStmt(vt.num_inputs)]
                    ELSE ss,
          bufs |-> IF AllocArgv(vt.num_inputs, bufOk)
                   THEN [bb EXCEPT ![fresh] = NewBuf(vt.num_inputs)] ELSE bb]

\* a close that forgets the argument buffer
statement_vtab_close_KeepsArgv(cur, ss, bb) ==
    [rc |-> SQLITE_OK,
     cur |-> [cur EXCEPT !.mem = "freed"],
     stmts |-> IF cur.stmt # NULL
               THEN [ss EXCEPT ![cur.stmt] = sqlite3_finalize(@)] ELSE ss,
     bufs |-> bb]

\* lines 147-153; sqlite3_finalize(NULL) and sqlite3_free(NULL) do nothing
statement_vtab_close(cur, ss, bb) ==
    [rc |-> SQLITE_OK,
     cur |-> [cur EXCEPT !.mem = "freed"],
     stmts |-> IF cur.stmt # NULL
               THEN [ss EXCEPT ![cur.stmt] = sqlite3_finalize(@)] ELSE ss,
     bufs |-> IF cur.param_argv # NULL
              THEN [bb EXCEPT ![cur.param_argv] = sqlite3_free(@)] ELSE bb]

\* an xNext that never advances the row identity
NextRowid_Stuck(rowid, res) == rowid

\* lines 158-162: what xNext makes of the step's result
NextRowid(rowid, res) == IF res = SQLITE_ROW THEN rowid + 1 ELSE rowid

\* an xNext that reports every error of the step as SQLITE_ERROR
NextRc_Generic(res) ==
    IF res = SQLITE_ROW \/ res = SQLITE_DONE THEN SQLITE_OK ELSE SQLITE_ERROR

NextRc(res) == IF res = SQLITE_ROW \/ res = SQLITE_DONE THEN SQLITE_OK ELSE res

\* an xNext that steps the statement twice
statement_vtab_next_StepsTwice(cur, ss, res) ==
    [rc |-> NextRc(res),
     cur |-> [cur EXCEPT !.rowid = NextRowid(@, res)],
     stmts |-> [ss EXCEPT ![cur.stmt] = sqlite3_step(sqlite3_step(@, res), res)]]

\* lines 155-163; res: the result of sqlite3_step
statement_vtab_next(cur, ss, res) ==
    [rc |-> NextRc(res),
     cur |-> [cur EXCEPT !.rowid = NextRowid(@, res)],
     stmts |-> [ss EXCEPT ![cur.stmt] = sqlite3_step(@, res)]]

\* lines 165-168
statement_vtab_rowid(cur) == cur.rowid

\* lines 170-172
statement_vtab_eof(cur, ss) == ~sqlite3_stmt_busy(ss[cur.stmt])

\* lines 174-182; a context no result was set on holds NULL
statement_vtab_column(cur, vt, ss, bb, i) ==
    IF i < vt.num_outputs THEN sqlite3_column_value(ss[cur.stmt], i)
    ELSE IF i - vt.num_outputs < cur.param_argc
         THEN bb[cur.param_argv].slots[i - vt.num_outputs + 1]
    ELSE NULL

\* a binding that ignores the index map
ParamIndex_Unmapped(idxStr, i) == i + 1

\* line 195: the parameter argument i (0-based) is bound to
ParamIndex(idxStr, i) == IF idxStr # NoMap THEN idxStr[i + 1] ELSE i + 1

\* what the service may do to the binds of one xFilter call: report error err
\* at argument at (0-based), or at none (at = argc)
BindFailures(argc) ==
    {[at |-> argc, err |-> SQLITE_OK]}
    \cup {[at |-> i, err |-> e] : i \in 0 .. argc - 1, e \in BindErrors}

\* what sqlite3_bind_value returns for argument i (0-based) of the loop
BindRc(s, idxStr, argv, i, fail) ==
    sqlite3_bind_value(s, ParamIndex(idxStr, i), argv[i + 1],
                       IF i = fail.at THEN fail.err ELSE SQLITE_OK).rc

\* lines 194-196: the bind loop.  It binds the arguments before the first one
\* whose bind fails, in order, so a parameter holds the value of the last of
\* them bound to it.
BindArgs(s, idxStr, argv, fail) ==
    LET failed == {i \in 0 .. Len(argv) - 1 :
                      BindRc(s, idxStr, argv, i, fail) # SQLITE_OK}
        stop == IF failed = {} THEN Len(argv)
                ELSE CHOOSE i \in failed : \A j \in failed : i <= j
        to(p) == {i \in 0 .. stop - 1 : ParamIndex(idxStr, i) = p}
        rc == IF stop < Len(argv) THEN BindRc(s, idxStr, argv, stop, fail)
              ELSE SQLITE_OK
    IN  [rc |-> rc,
         stmt |-> [s EXCEPT !.bindings =
                      [p \in 1 .. s.nparams |->
                          IF to(p) = {} THEN s.bindings[p]
                          ELSE argv[Max(to(p)) + 1]],
                            !.last = IF Len(argv) = 0 THEN @ ELSE rc]]

\* an xFilter that starts the row identity one lower
FilterRowid_Zero == 1 - 1

\* line 188
FilterRowid == 1

\* lines 201-203: the assertion and the copy into param_argv.  With the
\* assertion compiled out (ndebug) a copy of more than num_inputs pointers
\* overruns the buffer; a copy into a NULL buffer writes through NULL.
CopyFault(vt, cur, argc, ndebug) ==
    IF vt.num_inputs < argc THEN (IF ndebug THEN "overflow" ELSE "assert")
    ELSE IF argc # 0 /\ cur.param_argv = NULL THEN "nullwrite"
    ELSE "none"

\* lines 202-203
CopyArgs(b, argv) ==
    [b EXCEPT !.slots = [i \in 1 .. Len(@) |->
                            IF i <= Len(argv) THEN argv[i] ELSE @[i]]]

\* lines 186-206
statement_vtab_filter(cur, vt, ss, bb, idxStr, argv, fail, res, ndebug) ==
    LET c1 == [cur EXCEPT !.rowid = FilterRowid]
        bound == BindArgs(sqlite3_clear_bindings(sqlite3_reset(ss[cur.stmt])),
                          idxStr, argv, fail)
        stepped == sqlite3_step(bound.stmt, res)
        flt == CopyFault(vt, cur, Len(argv), ndebug)
    IN  IF bound.rc # SQLITE_OK
        THEN [rc |-> bound.rc, cur |-> c1, fault |-> "none", bufs |-> bb,
              stmts |-> [ss EXCEPT ![cur.stmt] = bound.stmt]]
        ELSE IF ~(res = SQLITE_ROW \/ res = SQLITE_DONE)
        THEN [rc |-> res, cur |-> c1, fault |-> "none", bufs |-> bb,
              stmts |-> [ss EXCEPT ![cur.stmt] = stepped]]
        ELSE IF flt # "none"
        THEN [rc |-> SQLITE_OK, cur |-> c1, fault |-> flt, bufs |-> bb,
              stmts |-> [ss EXCEPT ![cur.stmt] = stepped]]
        ELSE [rc |-> SQLITE_OK, cur |-> [c1 EXCEPT !.param_argc = Len(argv)],
              fault |-> "none",
              bufs |-> IF Len(argv) # 0
                       THEN [bb EXCEPT ![cur.param_argv] = CopyArgs(@, argv)]
                       ELSE bb,
              stmts |-> [ss EXCEPT ![cur.stmt] = stepped]]

(***************************************************************************)
(* The host (SQLite core) side of the xBestIndex / xFilter contract: the   *)
(* argument vector holds, at position argvIndex - 1, the right-hand side   *)
(* of the constraint given that argvIndex; a plan whose positive argvIndex *)
(* values are not exactly 1..n, each once (n values for n constraints), is *)
(* refused by the host.                                                    *)
(***************************************************************************)
Consumed(usage) == {i \in 1 .. Len(usage) : usage[i].argvIndex # 0}

HostAccepts(usage) ==
    {usage[i].argvIndex : i \in Consumed(usage)} = 1 .. Cardinality(Consumed(usage))

\* the right-hand side of the i-th candidate predicate
PredValue(i) == i

HostArgv(usage) ==
    [k \in 1 .. Cardinality(Consumed(usage)) |->
        PredValue(CHOOSE i \in Consumed(usage) : usage[i].argvIndex = k)]

(***************************************************************************)
(* Actions: one per call of the host into the module.                      *)
(***************************************************************************)
Live == fault = "none"

\* xBestIndex on the candidate list
BestIndex ==
    /\ Live /\ planRc = "none"
    /\ \E mallocOk \in BOOLEAN :
          LET r == statement_vtab_best_index(vtab.num_outputs, index_info, mallocOk)
          IN  /\ index_info' = r.info
              /\ planRc' = r.rc
    /\ out' = Called(0)
    /\ UNCHANGED <<vtab, cursors, stmts, bufs, host, ret, fault, cr>>

\* where the host stands after a call that returned rc on cursor cur: it
\* asks xEof after every successful xFilter and xNext
HostAfter(rc, cur, ss) ==
    IF rc # SQLITE_OK THEN "failed"
    ELSE IF statement_vtab_eof(cur, ss) THEN "eof"
    ELSE "row"

\* xOpen; the host calls nothing more on a cursor whose xOpen failed
Open(k) ==
    /\ Live /\ host[k] = "idle"
    /\ \E curOk, bufOk \in BOOLEAN, prepRc \in {SQLITE_OK} \cup PrepareErrors :
          LET r == statement_vtab_open(vtab, stmts, bufs, k, curOk, bufOk, prepRc)
          IN  /\ cursors' = [cursors EXCEPT ![k] = r.cur]
              /\ stmts' = r.stmts
              /\ bufs' = r.bufs
              /\ host' = [host EXCEPT ![k] = IF r.rc = SQLITE_OK THEN "open"
                                             ELSE "openfailed"]
              /\ ret' = [ret EXCEPT ![k] = r.rc]
    /\ out' = Called(k)
    /\ UNCHANGED <<vtab, index_info, planRc, fault, cr>>

\* xFilter with the plan's idxStr and an argument vector
Filter(k, idxStr, argv) ==
    /\ Live /\ host[k] \in {"open", "row", "eof"}
    /\ \E fail \in BindFailures(Len(argv)),
          ndebug \in (IF vtab.num_inputs < Len(argv) THEN BOOLEAN ELSE {FALSE}) :
        \E res \in (IF fail.err = SQLITE_OK
                    THEN StepResults(sqlite3_reset(stmts[cursors[k].stmt]))
                    ELSE {SQLITE_DONE}) :
          LET r == statement_vtab_filter(cursors[k], vtab, stmts, bufs, idxStr, argv,
                                         fail, res, ndebug)
          IN  /\ cursors' = [cursors EXCEPT ![k] = r.cur]
              /\ stmts' = r.stmts
              /\ bufs' = r.bufs
              /\ fault' = r.fault
              /\ host' = [host EXCEPT ![k] = HostAfter(r.rc, r.cur, r.stmts)]
              /\ ret' = [ret EXCEPT ![k] = r.rc]
    /\ out' = Called(k)
    /\ UNCHANGED <<vtab, index_info, planRc, cr>>

\* xFilter as the host calls it for the plan xBestIndex returned
FilterPlanned(k) ==
    /\ planRc = SQLITE_OK
    /\ HostAccepts(index_info.aConstraintUsage)
    /\ Filter(k, index_info.idxStr, HostArgv(index_info.aConstraintUsage))

\* the values the host binds on cursor k in Spec: values are opaque to the
\* module, so each cursor gets one of its own
ArgValues(k) == {k}

\* the argument vectors of the identity plans of the table, for cursor k
ScanArgs(vt, k) == UNION {[1 .. n -> ArgValues(k)] : n \in 0 .. vt.num_inputs}

\* xFilter with any identity plan
FilterAny(k) == \E argv \in ScanArgs(vtab, k) : Filter(k, NoMap, argv)

\* xNext; the host advances only a cursor that is on a row
Next(k) ==
    /\ Live /\ host[k] = "row"
    /\ \E res \in StepResults(stmts[cursors[k].stmt]) :
          LET r == statement_vtab_next(cursors[k], stmts, res)
          IN  /\ cursors' = [cursors EXCEPT ![k] = r.cur]
              /\ stmts' = r.stmts
              /\ host' = [host EXCEPT ![k] = HostAfter(r.rc, r.cur, r.stmts)]
              /\ ret' = [ret EXCEPT ![k] = r.rc]
    /\ out' = Called(k)
    /\ UNCHANGED <<vtab, index_info, planRc, bufs, fault, cr>>

\* xColumn of column i of the current row
Column(k, i) ==
    /\ Live /\ host[k] = "row"
    /\ out' = [op |-> "column", cur |-> k, col |-> i,
               val |-> statement_vtab_column(cursors[k], vtab, stmts, bufs, i)]
    /\ UNCHANGED <<vtab, index_info, planRc, cursors, stmts, bufs, host, ret, fault, cr>>

\* xRowid of the current row
Rowid(k) ==
    /\ Live /\ host[k] = "row"
    /\ out' = [op |-> "rowid", cur |-> k, col |-> 0,
               val |-> statement_vtab_rowid(cursors[k])]
    /\ UNCHANGED <<vtab, index_info, planRc, cursors, stmts, bufs, host, ret, fault, cr>>

\* xEof, as a call of its own
Eof(k) ==
    /\ Live /\ host[k] \in {"open", "row", "eof", "failed"}
    /\ out' = [op |-> "eof", cur |-> k, col |-> 0,
               val |-> IF statement_vtab_eof(cursors[k], stmts) THEN 1 ELSE 0]
    /\ UNCHANGED <<vtab, index_info, planRc, cursors, stmts, bufs, host, ret, fault, cr>>

\* xClose, from any state of an open cursor
Close(k) ==
    /\ Live /\ host[k] \in {"open", "row", "eof", "failed"}
    /\ LET r == statement_vtab_close(cursors[k], stmts, bufs)
       IN  /\ cursors' = [cursors EXCEPT ![k] = r.cur]
           /\ stmts' = r.stmts
           /\ bufs' = r.bufs
           /\ ret' = [ret EXCEPT ![k] = r.rc]
    /\ host' = [host EXCEPT ![k] = "closed"]
    /\ out' = Called(k)
    /\ UNCHANGED <<vtab, index_info, planRc, fault, cr>>

NumColumns(vt) == vt.num_outputs + vt.num_inputs

(***************************************************************************)
(* Spec: two cursors on a table with one output and one hidden column.     *)
(***************************************************************************)
NoCreate == [pc |-> "idle"]

ScanShape == [num_outputs |-> 1, num_inputs |-> 1]

Init ==
    /\ vtab = ScanShape
    /\ index_info = NoIndexInfo
    /\ planRc = "none"
    /\ cursors = [k \in CursorIds |-> NoCursor]
    /\ stmts = [h \in CursorIds |-> NoStmt]
    /\ bufs = [h \in CursorIds |-> NoBuf]
    /\ host = [k \in CursorIds |-> "idle"]
    /\ ret = [k \in CursorIds |-> SQLITE_OK]
    /\ out = NoOut
    /\ fault = "none"
    /\ cr = NoCreate

ScanNext ==
    \E k \in CursorIds :
        \/ Open(k)
        \/ FilterAny(k)
        \/ Next(k)
        \/ \E i \in 0 .. NumColumns(vtab) - 1 : Column(k, i)
        \/ Rowid(k)
        \/ Eof(k)
        \/ Close(k)

Spec == Init /\ [][ScanNext]_vars

(***************************************************************************)
(* SpecPlan: xBestIndex on a candidate list of the optimizer, then one     *)
(* scan on cursor 1 with the arguments the plan asks for.                  *)
(***************************************************************************)
\* tables with few columns, for every short candidate list
SmallShapes ==
    {[num_outputs |-> 1, num_inputs |-> 3], [num_outputs |-> 0, num_inputs |-> 2]}

\* a table with more hidden columns than used_cols has bits
BigShape == [num_outputs |-> 0, num_inputs |-> WordBits + 2]

\* the columns a constraint may be on: the rowid (-1), outputs, hidden inputs
ConstraintColumns(vt) ==
    (IF vt.num_outputs = 0 THEN {-1} ELSE 0 .. vt.num_outputs - 1)
    \cup (vt.num_outputs .. NumColumns(vt) - 1)

ConstraintChoices(vt) ==
    [iColumn : ConstraintColumns(vt), usable : BOOLEAN,
     op : {SQLITE_INDEX_CONSTRAINT_EQ, SQLITE_INDEX_CONSTRAINT_GT}]

ShortLists(vt) ==
    UNION {[1 .. n -> ConstraintChoices(vt)] : n \in 0 .. MaxConstraints}

EqOn(c) == [iColumn |-> c, usable |-> TRUE, op |-> SQLITE_INDEX_CONSTRAINT_EQ]

\* usable equality constraints on the hidden columns 0..m, ascending
Prefix(m) == [i \in 1 .. m + 1 |-> EqOn(BigShape.num_outputs + i - 1)]

\* list l without its i-th constraint
Without(l, i) == [j \in 1 .. Len(l) - 1 |-> IF j < i THEN l[j] ELSE l[j + 1]]

\* long candidate lists around the 64-column limit of the bit mask
LongLists ==
    {Prefix(m) : m \in WordBits - 2 .. WordBits + 1}
    \cup {Without(Prefix(m), 2) : m \in WordBits - 2 .. WordBits + 1}
    \cup {<<EqOn(BigShape.num_outputs + c)>> : c \in WordBits - 2 .. WordBits + 1}

CandidateLists(vt) == IF vt = BigShape THEN LongLists ELSE ShortLists(vt)

InitPlan ==
    /\ vtab \in SmallShapes \cup {BigShape}
    /\ \E l \in CandidateLists(vtab) :
          index_info = [NoIndexInfo EXCEPT
                          !.aConstraint = l,
                          !.aConstraintUsage = [i \in 1 .. Len(l) |-> NoUsage]]
    /\ planRc = "none"
    /\ cursors = [k \in CursorIds |-> NoCursor]
    /\ stmts = [h \in CursorIds |-> NoStmt]
    /\ bufs = [h \in CursorIds |-> NoBuf]
    /\ host = [k \in CursorIds |-> "idle"]
    /\ ret = [k \in CursorIds |-> SQLITE_OK]
    /\ out = NoOut
    /\ fault = "none"
    /\ cr = NoCreate

\* the host opens the cursor of a scan once it has a plan it accepts; the
\* scan itself is explored on the tables of at most MaxScanColumns columns
OpenPlanned(k) ==
    /\ NumColumns(vtab) <= MaxScanColumns
    /\ planRc = SQLITE_OK
    /\ HostAccepts(index_info.aConstraintUsage)
    /\ Open(k)

PlanNext ==
    \/ BestIndex
    \/ OpenPlanned(1)
    \/ FilterPlanned(1)
    \/ \E i \in 0 .. NumColumns(vtab) - 1 : Column(1, i)

SpecPlan == InitPlan /\ [][PlanNext]_vars

(***************************************************************************)
(* xCreate / xConnect (statement_vtab_create).  cr holds the call:         *)
(*   pc          the statement group the call is at, "returned" at its end *)
(*   argc, arg   the argument count and argv[3], a sequence of characters  *)
(*   rc, pzErr   the result code and *pzErr ("unset": never written,       *)
(*               "null": NULL, else the message)                           *)
(*   ppVtab      *ppVtab: "unset", "vtab" (the handle) or "null"           *)
(*   vtabMem, sqlMem, createMem   "none", "live" or "freed", with the      *)
(*               number of sqlite3_free calls on each (..Frees)            *)
(*   stmt, create   the local pointers: NULL or "ptr"                      *)
(*   stmtMem, stmtFinalizes   the temporary statement                      *)
(*   meta        what the service says of the temporary statement          *)
(*   schema      the text build_create_statement produced, as its columns  *)
(*   nameless, strOk   what the service did for build_create_statement:    *)
(*               the result columns it gave no name for, and whether the   *)
(*               string builder could allocate                             *)
(*   mutex, mutexBad   holds of the connection mutex; a bad enter/leave    *)
(*   mutexEnters, mutexLeaves   the calls of sqlite3_mutex_enter / _leave  *)
(*   declared    whether sqlite3_declare_vtab accepted the schema          *)
(***************************************************************************)
DeclChars == {"(", ")", "s", "t", "u", "?", ":"}

DeclTexts == UNION {[1 .. n -> DeclChars] : n \in 0 .. MaxDeclLen}

NoMeta ==
    [ok |-> FALSE, readonly |-> FALSE, ncols |-> 0, nparams |-> 0,
     names |-> << >>, params |-> << >>]

StartCreate(argc, arg) ==
    [pc |-> "start", argc |-> argc, arg |-> arg, rc |-> SQLITE_OK,
     pzErr |-> "unset", ppVtab |-> "unset",
     vtabMem |-> "none", vtabFrees |-> 0,
     sql |-> << >>, sql_len |-> 0, sqlMem |-> "none", sqlFrees |-> 0,
     num_inputs |-> 0, num_outputs |-> 0,
     stmt |-> "null", stmtMem |-> "none", stmtFinalizes |-> 0, meta |-> NoMeta,
     create |-> "null", createMem |-> "none", createFrees |-> 0, schema |-> << >>,
     nameless |-> {}, strOk |-> TRUE,
     mutex |-> 0, mutexBad |-> FALSE, mutexEnters |-> 0, mutexLeaves |-> 0,
     declared |-> FALSE]

\* the number of characters ch in text t
Count(t, ch) == Cardinality({i \in 1 .. Len(t) : t[i] = ch})

\* the k-th smallest element of a set of numbers
Nth(S, k) == CHOOSE x \in S : Cardinality({y \in S : y <= x}) = k

\* the places of the result columns of a query text: every s and every t
ColumnPlaces(text) == {i \in 1 .. Len(text) : text[i] \in {"s", "t"}}

\* the places where the parameters of a query text first occur: every ? is
\* a parameter of its own, every : is the one parameter :s
ParamPlaces(text) ==
    {i \in 1 .. Len(text) :
        \/ text[i] = "?"
        \/ text[i] = ":" /\ \A j \in 1 .. i - 1 : text[j] # ":"}

\* the statement service on a query text: a text that starts with s or t is
\* a SELECT whose result columns are its letters s and t, each named by its
\* letter; one that starts with u is an UPDATE; anything else does not
\* compile.  names: sqlite3_column_name of each result column, params:
\* sqlite3_bind_parameter_name of each parameter (<< >> for NULL), each a
\* sequence of characters.
Compile(text) ==
    LET params == [k \in 1 .. Cardinality(ParamPlaces(text)) |->
                      IF text[Nth(ParamPlaces(text), k)] = ":"
                      THEN <<":", "s">> ELSE << >>]
    IN  IF text # << >> /\ text[1] \in {"s", "t"}
        THEN [ok |-> TRUE, readonly |-> TRUE,
              ncols |-> Cardinality(ColumnPlaces(text)),
              nparams |-> Len(params),
              names |-> [k \in 1 .. Cardinality(ColumnPlaces(text)) |->
                            <<text[Nth(ColumnPlaces(text), k)]>>],
              params |-> params]
        ELSE IF text # << >> /\ text[1] = "u"
        THEN [ok |-> TRUE, readonly |-> FALSE, ncols |-> 0,
              nparams |-> Len(params), names |-> << >>, params |-> params]
        ELSE NoMeta

\* sqlite3_mprintf: the message, or NULL when the allocation fails
Mprintf(msg, ok) == IF ok THEN msg ELSE "null"

\* lines 64-66 and 69-71: an argument error with its message
ArgumentError(c, msg, msgOk) ==
    [c EXCEPT !.pc = "returned",
              !.pzErr = Mprintf(msg, msgOk),
              !.rc = IF msgOk THEN SQLITE_MISUSE ELSE SQLITE_NOMEM]

\* a length check that lets the two-character declaration through
TooShort_ByOne(c) == c.argc < 4 \/ Len(c.arg) < 2

\* line 63
TooShort(c) == c.argc < 4 \/ Len(c.arg) < 3

\* line 68
NotParenthesized(c) == c.arg[1] # "(" \/ c.arg[Len(c.arg)] # ")"

\* lines 63-72
CheckArguments(c, msgOk) ==
    IF TooShort(c) THEN ArgumentError(c, "no statement provided", msgOk)
    ELSE IF NotParenthesized(c)
    THEN ArgumentError(c, "statement must be parenthesized", msgOk)
    ELSE [c EXCEPT !.pc = "alloc"]

\* sqlite3_mutex_enter / sqlite3_mutex_leave on the connection mutex
MutexEnter(c) ==
    [c EXCEPT !.mutex = @ + 1, !.mutexBad = @ \/ c.mutex # 0,
              !.mutexEnters = @ + 1]

\* an exit that does not release the mutex
MutexLeave_Forgets(c) == c

MutexLeave(c) ==
    [c EXCEPT !.mutex = IF @ > 0 THEN @ - 1 ELSE 0, !.mutexBad = @ \/ c.mutex = 0,
              !.mutexLeaves = @ + 1]

\* lines 55-59: statement_vtab_destroy(*ppVtab)
statement_vtab_destroy(c) ==
    [c EXCEPT !.sqlMem = IF @ = "live" THEN "freed" ELSE @,
              !.sqlFrees = IF c.sqlMem # "none" THEN @ + 1 ELSE @,
              !.vtabMem = "freed",
              !.vtabFrees = @ + 1]

\* an error label that does not free the schema text
FreeCreate_Skipped(c) == c

\* what sqlite3_free(create) and sqlite3_finalize(stmt) do: nothing for NULL
FreeCreate(c) ==
    IF c.create = "null" THEN c
    ELSE [c EXCEPT !.createMem = "freed", !.createFrees = @ + 1]

FinalizeStmt(c) ==
    IF c.stmt = "null" THEN c
    ELSE [c EXCEPT !.stmtMem = "finalized", !.stmtFinalizes = @ + 1]

\* lines 123-128: the error label
ErrorExit(c, rc) ==
    [statement_vtab_destroy(FinalizeStmt(FreeCreate(c)))
        EXCEPT !.ppVtab = "null", !.rc = rc, !.pc = "returned"]

\* lines 119-122, then the error label
SqliteErrorExit(c, rc, msgOk) ==
    ErrorExit(MutexLeave([c EXCEPT !.pzErr = Mprintf("errmsg", msgOk)]),
              IF msgOk THEN rc ELSE SQLITE_NOMEM)

\* lines 79-86
AllocVtab(c, ok) ==
    IF ~ok THEN [c EXCEPT !.rc = SQLITE_NOMEM, !.pc = "returned"]
    ELSE [c EXCEPT !.vtabMem = "live", !.ppVtab = "vtab",
                   !.sql_len = Len(c.arg) - 2, !.pc = "copy"]

\* line 87: "%.*s" of sql_len characters from argv[3] + 1
CopiedText(c) == SubSeq(c.arg, 2, 1 + c.sql_len)

\* lines 87-90
CopySql(c, ok) ==
    IF ~ok THEN ErrorExit(c, SQLITE_NOMEM)
    ELSE [c EXCEPT !.sql = CopiedText(c), !.sqlMem = "live", !.pc = "prepare"]

\* lines 92-95; rc: what sqlite3_prepare_v2 returns
PrepareTemp(c, rc, msgOk) ==
    IF rc # SQLITE_OK THEN SqliteErrorExit(MutexEnter(c), rc, msgOk)
    ELSE [MutexLeave(MutexEnter(c))
            EXCEPT !.stmt = "ptr", !.stmtMem = "live", !.meta = Compile(c.sql),
                   !.pc = "readonly"]

\* lines 96-104
CheckReadOnly(c, msgOk) ==
    IF ~c.meta.readonly
    THEN ErrorExit([c EXCEPT !.pzErr = Mprintf("Statement must be read only.", msgOk)],
                   IF msgOk THEN SQLITE_ERROR ELSE SQLITE_NOMEM)
    ELSE [c EXCEPT !.num_inputs = c.meta.nparams,
                   !.num_outputs = c.meta.ncols,
                   !.pc = "schema"]

\* "%d" of a parameter number
Decimal == <<<<"1">>, <<"2">>, <<"3">>, <<"4">>, <<"5">>, <<"6">>>>

\* lines 44-48: the name of the hidden column of parameter i (1-based): the
\* parameter's name without its first character, or its number
HiddenName(meta, i) ==
    IF meta.params[i] # << >> THEN Tail(meta.params[i]) ELSE Decimal[i]

\* a builder that leaves a nameless result column out and goes on
build_create_statement_SkipsNameless(meta, nameless, strOk) ==
    IF ~strOk THEN [ok |-> FALSE, columns |-> << >>]
    ELSE [ok |-> TRUE,
          columns |-> [i \in 1 .. meta.nparams |->
                          [role |-> "hidden", ordinal |-> i,
                           name |-> Decimal[i]]]]

\* lines 31-53: the schema text as its column list, output columns first;
\* nameless: the result columns sqlite3_column_name returns NULL for, strOk:
\* whether the string builder could allocate.  NULL is << >> with ok FALSE.
build_create_statement(meta, nameless, strOk) ==
    IF nameless # {} \/ ~strOk THEN [ok |-> FALSE, columns |-> << >>]
    ELSE [ok |-> TRUE,
          columns |-> [i \in 1 .. meta.ncols + meta.nparams |->
                          IF i <= meta.ncols
                          THEN [role |-> "output", ordinal |-> i,
                                name |-> meta.names[i]]
                          ELSE [role |-> "hidden", ordinal |-> i - meta.ncols,
                                name |-> HiddenName(meta, i - meta.ncols)]]]

\* lines 106-109; the text of a failed build is freed inside the builder
DeriveSchema(c, nameless, strOk) ==
    LET b == build_create_statement(c.meta, nameless, strOk)
        d == [c EXCEPT !.nameless = nameless, !.strOk = strOk]
    IN  IF ~b.ok THEN ErrorExit(d, SQLITE_NOMEM)
        ELSE [d EXCEPT !.create = "ptr", !.createMem = "live",
                       !.schema = b.columns, !.pc = "declare"]

\* lines 110-117; rc: what sqlite3_declare_vtab returns
DeclareVtab(c, rc, msgOk) ==
    IF rc # SQLITE_OK THEN SqliteErrorExit(MutexEnter(c), rc, msgOk)
    ELSE [FinalizeStmt(FreeCreate(MutexLeave(MutexEnter(c))))
            EXCEPT !.declared = TRUE, !.rc = SQLITE_OK, !.pc = "returned"]

\* the results sqlite3_prepare_v2 may have on the copied text
PrepareResults(c) ==
    (IF Compile(c.sql).ok THEN {SQLITE_OK} ELSE {SQLITE_ERROR}) \cup {SQLITE_NOMEM}

\* what sqlite3_declare_vtab takes: a CREATE TABLE statement with at least
\* one column and no two columns of one name
Declarable(schema) ==
    /\ schema # << >>
    /\ \A i, j \in 1 .. Len(schema) : schema[i].name = schema[j].name => i = j

\* the results sqlite3_declare_vtab may have
DeclareResults(c) ==
    (IF Declarable(c.schema) THEN {SQLITE_OK} ELSE {SQLITE_ERROR}) \cup {SQLITE_NOMEM}

CreateStep(next) ==
    /\ cr' = next
    /\ UNCHANGED <<vtab, index_info, planRc, cursors, stmts, bufs, host, ret, out, fault>>

CreateCheckArguments ==
    /\ cr.pc = "start"
    /\ \E msgOk \in BOOLEAN : CreateStep(CheckArguments(cr, msgOk))

CreateAllocVtab ==
    /\ cr.pc = "alloc"
    /\ \E ok \in BOOLEAN : CreateStep(AllocVtab(cr, ok))

CreateCopySql ==
    /\ cr.pc = "copy"
    /\ \E ok \in BOOLEAN : CreateStep(CopySql(cr, ok))

CreatePrepare ==
    /\ cr.pc = "prepare"
    /\ \E rc \in PrepareResults(cr), msgOk \in BOOLEAN :
          CreateStep(PrepareTemp(cr, rc, msgOk))

CreateCheckReadOnly ==
    /\ cr.pc = "readonly"
    /\ \E msgOk \in BOOLEAN : CreateStep(CheckReadOnly(cr, msgOk))

CreateDeriveSchema ==
    /\ cr.pc = "schema"
    /\ \E nameless \in SUBSET (1 .. cr.meta.ncols), strOk \in BOOLEAN :
          CreateStep(DeriveSchema(cr, nameless, strOk))

CreateDeclare ==
    /\ cr.pc = "declare"
    /\ \E rc \in DeclareResults(cr), msgOk \in BOOLEAN :
          CreateStep(DeclareVtab(cr, rc, msgOk))

InitCreate ==
    /\ vtab = ScanShape
    /\ index_info = NoIndexInfo
    /\ planRc = "none"
    /\ cursors = [k \in CursorIds |-> NoCursor]
    /\ stmts = [h \in CursorIds |-> NoStmt]
    /\ bufs = [h \in CursorIds |-> NoBuf]
    /\ host = [k \in CursorIds |-> "idle"]
    /\ ret = [k \in CursorIds |-> SQLITE_OK]
    /\ out = NoOut
    /\ fault = "none"
    /\ \E argc \in {3, 4}, arg \in DeclTexts :
          /\ argc = 3 => arg = << >>
          /\ cr = StartCreate(argc, arg)

CreateNext ==
    \/ CreateCheckArguments
    \/ CreateAllocVtab
    \/ CreateCopySql
    \/ CreatePrepare
    \/ CreateCheckReadOnly
    \/ CreateDeriveSchema
    \/ CreateDeclare

SpecCreate == InitCreate /\ [][CreateNext]_vars

(***************************************************************************)
(* Properties of the planner and of a planned scan (SpecPlan).             *)
(***************************************************************************)
\* the candidate predicates on hidden column c (0-based among hidden columns)
PredsOn(c) ==
    {i \in 1 .. Len(index_info.aConstraint) :
        index_info.aConstraint[i].iColumn = vtab.num_outputs + c}

\* the candidate predicates on hidden columns, and the constrained columns
HiddenPreds ==
    {i \in 1 .. Len(index_info.aConstraint) :
        index_info.aConstraint[i].iColumn >= vtab.num_outputs}

HiddenCols == {index_info.aConstraint[i].iColumn - vtab.num_outputs : i \in HiddenPreds}

\* the place of hidden predicate i among the hidden predicates, in list order
RankOf(i) == Cardinality({j \in HiddenPreds : j <= i})

\* the value a read of hidden column c must give: that of a predicate on c
ExpectedOn(c, v) ==
    IF PredsOn(c) = {} THEN v = NULL ELSE v \in {PredValue(i) : i \in PredsOn(c)}

\* cursor 1 went through every bind of xFilter
BoundAll ==
    \/ host[1] \in {"row", "eof"}
    \/ host[1] = "failed" /\ ret[1] \in StepErrors

\* C1: after a plan the planner accepted (and the host took), xFilter is
\* called with argc <= num_inputs: its assertion never fails and its copy into
\* param_argv never writes more than the num_inputs slots of the buffer.
C1_ArgcWithinNumInputs == fault \notin {"assert", "overflow"}

\* C2: when xFilter has bound its arguments for an accepted plan, parameter
\* c + 1 holds the value of an equality predicate on hidden column c, every
\* parameter of an unconstrained column is unbound, and the parameter of each
\* argument position is c + 1, by identity or through the index map.
C2_BindsPredicateToItsParameter ==
    /\ (planRc = SQLITE_OK /\ HostAccepts(index_info.aConstraintUsage)) =>
          \A i \in HiddenPreds :
             LET a == index_info.aConstraintUsage[i].argvIndex
             IN  (IF index_info.idxStr = NoMap THEN a ELSE index_info.idxStr[a])
                    = index_info.aConstraint[i].iColumn - vtab.num_outputs + 1
    /\ BoundAll =>
          \A c \in 0 .. vtab.num_inputs - 1 :
             ExpectedOn(c, stmts[cursors[1].stmt].bindings[c + 1])

\* C2 witness: a scan on a row under the out-of-order index map <<3, 1>>
C2_Witness ==
    /\ host[1] = "row"
    /\ index_info.idxStr = <<3, 1>>
    /\ stmts[cursors[1].stmt].bindings = <<2, NULL, 1>>

\* C3: on a row, a read of hidden column c gives the value of the equality
\* predicate on c, and NULL exactly when no predicate constrains c.
C3_HiddenColumnReadsItsPredicate ==
    (out.op = "column" /\ out.col >= vtab.num_outputs) =>
        ExpectedOn(out.col - vtab.num_outputs, out.val)

\* C4: the planner returns SQLITE_CONSTRAINT exactly when some predicate on a
\* hidden column is unusable or is not an equality, wherever it is in the list.
C4_InfeasibleIffBadHiddenPredicate ==
    planRc # "none" =>
        (planRc = SQLITE_CONSTRAINT <=>
            \E i \in HiddenPreds :
                \/ ~index_info.aConstraint[i].usable
                \/ index_info.aConstraint[i].op # SQLITE_INDEX_CONSTRAINT_EQ)

\* C4 witness: rejected for its third predicate, after two were consumed
C4_Witness ==
    /\ planRc = SQLITE_CONSTRAINT
    /\ Len(index_info.aConstraint) = 3
    /\ index_info.aConstraintUsage[1].argvIndex # 0
    /\ index_info.aConstraintUsage[2].argvIndex # 0
    /\ index_info.aConstraint[3].usable
    /\ index_info.aConstraint[3].op = SQLITE_INDEX_CONSTRAINT_GT

\* C5: an accepted plan has no index map exactly when no hidden column is
\* constrained or the constrained hidden columns are 0..max_c with max_c <= 63,
\* and then argument positions are c + 1; otherwise the map has one entry per
\* consumed predicate, the k-th being c + 1 of the k-th consumed predicate in
\* list order, and that predicate has argument position k.
C5_IdentityIffContiguous ==
    planRc = SQLITE_OK =>
        /\ index_info.idxStr = NoMap <=>
               \/ HiddenCols = {}
               \/ \E max_c \in 0 .. 63 : HiddenCols = 0 .. max_c
        /\ index_info.idxStr = NoMap =>
               \A i \in HiddenPreds :
                  index_info.aConstraintUsage[i].argvIndex
                     = index_info.aConstraint[i].iColumn - vtab.num_outputs + 1
        /\ index_info.idxStr # NoMap =>
               /\ Len(index_info.idxStr) = Cardinality(HiddenPreds)
               /\ index_info.needToFreeIdxStr = 1
               /\ \A i \in HiddenPreds :
                     /\ index_info.aConstraintUsage[i].argvIndex = RankOf(i)
                     /\ index_info.idxStr[RankOf(i)]
                           = index_info.aConstraint[i].iColumn - vtab.num_outputs + 1

\* C5 witness: the hidden columns 0..64, contiguous and one too many for the
\* bit mask, planned with an index map
C5_Witness ==
    /\ planRc = SQLITE_OK
    /\ HiddenCols = 0 .. 64
    /\ Len(index_info.idxStr) = 65

\* the candidate predicates on output columns (and on the rowid)
OutputPreds == (1 .. Len(index_info.aConstraint)) \ HiddenPreds

\* C17: whatever xBestIndex returns, a predicate on an output column keeps
\* argvIndex 0 and omit 0; an accepted plan consumes the hidden predicates
\* only, so they alone count for the argument vector and the index map; and
\* a list whose hidden predicates are all usable equalities is not
\* infeasible, whatever its output predicates are.
C17_OutputPredicatesIgnored ==
    planRc # "none" =>
        /\ \A i \in OutputPreds :
              /\ index_info.aConstraintUsage[i].argvIndex = 0
              /\ index_info.aConstraintUsage[i].omit = 0
        /\ planRc = SQLITE_OK =>
              /\ Consumed(index_info.aConstraintUsage) = HiddenPreds
              /\ index_info.idxStr # NoMap =>
                    Len(index_info.idxStr) = Cardinality(HiddenPreds)
              /\ HostAccepts(index_info.aConstraintUsage) =>
                    Len(HostArgv(index_info.aConstraintUsage)) = Cardinality(HiddenPreds)
        /\ (\A i \in HiddenPreds :
               /\ index_info.aConstraint[i].usable
               /\ index_info.aConstraint[i].op = SQLITE_INDEX_CONSTRAINT_EQ)
              => planRc # SQLITE_CONSTRAINT

\* C17 witness: an unusable inequality on an output column between two
\* hidden predicates of a plan with an index map
C17_Witness ==
    /\ planRc = SQLITE_OK
    /\ Len(index_info.aConstraint) = 3
    /\ OutputPreds = {2}
    /\ ~index_info.aConstraint[2].usable
    /\ index_info.aConstraint[2].op = SQLITE_INDEX_CONSTRAINT_GT
    /\ index_info.aConstraint[2].iColumn = 0
    /\ Len(index_info.idxStr) = 2

\* C18: in an accepted plan no two consumed predicates have the same
\* argument position, and the positions are exactly 1..n for n consumed
\* predicates.
C18_ArgumentPositionsDistinct ==
    planRc = SQLITE_OK =>
        LET usage == index_info.aConstraintUsage
        IN  /\ \A i \in Consumed(usage) : \A j \in Consumed(usage) :
                  usage[i].argvIndex = usage[j].argvIndex => i = j
            /\ \A i \in Consumed(usage) :
                  usage[i].argvIndex \in 1 .. Cardinality(Consumed(usage))

(***************************************************************************)
(* Properties of the cursors (Spec).                                       *)
(***************************************************************************)
StmtOf(k) == stmts[cursors[k].stmt]

\* C6: on a row, the row identity is the number of rows the scan has produced
\* since its xFilter: 1 on the first row, one more after each xNext that
\* produces a row; so is every row identity xRowid hands back.
C6_RowidCountsRows ==
    /\ \A k \in CursorIds :
          host[k] = "row" => statement_vtab_rowid(cursors[k]) = StmtOf(k).nrows
    /\ out.op = "rowid" => out.val = StmtOf(out.cur).nrows

\* C6 witness: xRowid on the second row of a scan
C6_Witness == out.op = "rowid" /\ out.val = 2 /\ StmtOf(out.cur).nrows = 2

\* all a cursor owns and all the host can observe of it
CursorView(k) ==
    [cur |-> cursors[k],
     stmt |-> IF cursors[k].stmt # NULL THEN stmts[cursors[k].stmt] ELSE NoStmt,
     buf |-> IF cursors[k].param_argv # NULL THEN bufs[cursors[k].param_argv] ELSE NoBuf,
     host |-> host[k],
     ret |-> ret[k]]

\* C7: a call on one cursor changes nothing of the other cursor (its fields,
\* its statement instance, its argument buffer, where the host is with it)
\* nor of the table handle.
C7_CursorsDoNotInterfere ==
    [][/\ vtab' = vtab
       /\ \A j \in CursorIds : out'.cur # j => CursorView(j)' = CursorView(j)]_vars

\* C7 witness: both cursors on a row, bound to different arguments, at
\* different rows
C7_Witness ==
    /\ host[1] = "row" /\ host[2] = "row"
    /\ StmtOf(1).bindings = <<1>> /\ StmtOf(2).bindings = <<2>>
    /\ cursors[1].rowid = 2 /\ cursors[2].rowid = 1

Opened(k) == host[k] \in {"open", "row", "eof", "failed"}

\* C8: the statement instance and the argument buffer of an open cursor are
\* not released, those of a closed cursor are released exactly once, and the
\* cursor itself is freed by xClose only.
C8_ReleasedOnceByClose ==
    \A k \in CursorIds :
       /\ Opened(k) =>
             /\ cursors[k].mem = "live"
             /\ StmtOf(k).live /\ StmtOf(k).finalizes = 0
             /\ cursors[k].param_argv # NULL =>
                   /\ bufs[cursors[k].param_argv].live
                   /\ bufs[cursors[k].param_argv].frees = 0
       /\ host[k] = "closed" =>
             /\ cursors[k].mem = "freed"
             /\ ~StmtOf(k).live /\ StmtOf(k).finalizes = 1
             /\ cursors[k].param_argv # NULL =>
                   /\ ~bufs[cursors[k].param_argv].live
                   /\ bufs[cursors[k].param_argv].frees = 1

\* C8 witness: a cursor closed after a scan whose xFilter calls all failed
C8_Witness ==
    /\ host[1] = "closed"
    /\ cursors[1].rowid = FilterRowid /\ cursors[1].param_argc = Junk
    /\ StmtOf(1).finalizes = 1
    /\ cursors[1].param_argv # NULL /\ bufs[cursors[1].param_argv].frees = 1

\* C13: the at-end check is true exactly when the statement is not on a
\* produced row (so before any xFilter); a read of an output column gives
\* that column of the row the statement is on, which is the row of the bound
\* parameters numbered by the rows produced so far; a call that leaves the
\* cursor on a row has stepped the statement once: xNext to the next row of
\* the same execution, xFilter to the first row of a new one.
C13_ServesTheStatementsRows ==
    /\ [](\A k \in CursorIds :
            Opened(k) =>
               /\ statement_vtab_eof(cursors[k], stmts) <=> StmtOf(k).row = NULL
               /\ host[k] = "open" => statement_vtab_eof(cursors[k], stmts)
               /\ host[k] = "row" =>
                     /\ StmtOf(k).nrows >= 1
                     /\ StmtOf(k).row = RowContent(StmtOf(k), StmtOf(k).nrows))
    /\ [](/\ out.op = "eof" => (out.val = 1 <=> StmtOf(out.cur).row = NULL)
          /\ (out.op = "column" /\ out.col < vtab.num_outputs) =>
                out.val = RowContent(StmtOf(out.cur), StmtOf(out.cur).nrows) + out.col)
    /\ [][\A k \in CursorIds :
            (out'.op = "call" /\ out'.cur = k /\ host'[k] = "row") =>
               IF Next(k)
               THEN /\ StmtOf(k)'.nrows = StmtOf(k).nrows + 1
                    /\ StmtOf(k)'.bindings = StmtOf(k).bindings
               ELSE StmtOf(k)'.nrows = 1]_vars

\* C13 witness: the at-end check is true after the xNext that found no row
\* after the second
C13_Witness ==
    /\ out.op = "eof" /\ out.val = 1
    /\ host[out.cur] = "eof"
    /\ StmtOf(out.cur).nrows = 2
    /\ cursors[out.cur].rowid = 2

\* C14 as stated: while the scan has produced no row (after xOpen, after an
\* xFilter whose step found none) rowid is 0, taking memory xOpen never wrote
\* to hold 0; rowid is 1 only once the first row is produced.
C14_RowidZeroBeforeFirstRow ==
    \A k \in CursorIds :
       (host[k] = "open" \/ (host[k] = "eof" /\ StmtOf(k).nrows = 0)) =>
           cursors[k].rowid \in {0, Junk}

\* C14: xOpen does not write rowid; every xFilter sets it to 1 before it
\* binds or steps, so it is 1 while the scan has produced no row and after
\* the first row alike, and it is the number of rows produced on every row.
C14_RowidOneFromFilter ==
    \A k \in CursorIds :
       Opened(k) =>
          /\ host[k] = "open" => cursors[k].rowid = Junk
          /\ (host[k] # "open" /\ StmtOf(k).nrows = 0) => cursors[k].rowid = 1
          /\ host[k] = "row" => cursors[k].rowid = StmtOf(k).nrows

\* C14 witness: after an xFilter whose first step found no row
C14_Witness ==
    /\ host[1] = "eof"
    /\ ret[1] = SQLITE_OK
    /\ StmtOf(1).nrows = 0
    /\ cursors[1].rowid = 1

\* the arguments of the scan cursor k is in, as xFilter kept them
ScanArgv(k) ==
    [i \in 1 .. cursors[k].param_argc |-> bufs[cursors[k].param_argv].slots[i]]

\* C15: in a scan (after an xFilter that returned SQLITE_OK, first or
\* repeated) the bound parameters are exactly the arguments of that xFilter,
\* every other parameter is unbound, and a read of a hidden column gives the
\* argument of this scan or NULL; an xFilter that finds a row leaves the
\* cursor on the first row of the execution with the new bindings, with row
\* identity 1.
C15_RebindStartsAfresh ==
    /\ [](\A k \in CursorIds :
            (Live /\ host[k] \in {"row", "eof"}) =>
               \A p \in 1 .. vtab.num_inputs :
                  StmtOf(k).bindings[p]
                     = (IF p <= cursors[k].param_argc THEN ScanArgv(k)[p] ELSE NULL))
    /\ []((out.op = "column" /\ out.col >= vtab.num_outputs) =>
             out.val = StmtOf(out.cur).bindings[out.col - vtab.num_outputs + 1])
    /\ [][\A k \in CursorIds :
            (out'.op = "call" /\ out'.cur = k /\ host'[k] = "row" /\ ~Next(k)) =>
               /\ cursors'[k].rowid = 1
               /\ StmtOf(k)'.nrows = 1
               /\ StmtOf(k)'.row = RowContent(StmtOf(k)', 1)]_vars

\* C15 witness: on the first row of a scan without arguments, on a cursor
\* whose earlier scan had the argument 1
C15_Witness ==
    /\ host[1] = "row"
    /\ cursors[1].param_argc = 0
    /\ cursors[1].rowid = 1
    /\ StmtOf(1).bindings = <<NULL>>
    /\ cursors[1].param_argv # NULL
    /\ bufs[cursors[1].param_argv].slots = <<1>>

\* C16: what xFilter or xNext last returned is the result code of the last
\* bind or step of the statement, with SQLITE_ROW and SQLITE_DONE reported as
\* SQLITE_OK; the call failed exactly when that code is an error; an xNext
\* that finds no row leaves rowid as it was.
C16_ErrorsReturnedVerbatim ==
    /\ [](\A k \in CursorIds :
            (Live /\ host[k] \in {"row", "eof", "failed"}) =>
               /\ ret[k] = (IF StmtOf(k).last \in {SQLITE_ROW, SQLITE_DONE}
                            THEN SQLITE_OK ELSE StmtOf(k).last)
               /\ host[k] = "row" <=> StmtOf(k).last = SQLITE_ROW
               /\ host[k] = "eof" <=> StmtOf(k).last = SQLITE_DONE
               /\ host[k] = "failed" <=>
                     StmtOf(k).last \in StepErrors \cup BindErrors \cup {SQLITE_RANGE})
    /\ [][\A k \in CursorIds :
            (Next(k) /\ host'[k] # "row") => cursors'[k].rowid = cursors[k].rowid]_vars

\* C16 witness: xNext on the first row returned the error of its step
C16_Witness ==
    /\ host[1] = "failed"
    /\ ret[1] = SQLITE_BUSY
    /\ StmtOf(1).last = SQLITE_BUSY
    /\ StmtOf(1).nrows = 1
    /\ cursors[1].rowid = 1

\* C19: after an xOpen that failed, the cursor, its argument buffer and its
\* statement instance are not allocated; after an xOpen that succeeded on a
\* table with parameters, the cursor has a live argument buffer.
C19_FailedOpenKeepsNothing ==
    \A k \in CursorIds :
       /\ host[k] = "openfailed" =>
             /\ cursors[k].mem # "live"
             /\ cursors[k].param_argv # NULL => ~bufs[cursors[k].param_argv].live
             /\ cursors[k].stmt # NULL => ~stmts[cursors[k].stmt].live
       /\ (host[k] = "open" /\ vtab.num_inputs > 0) =>
             /\ cursors[k].param_argv # NULL
             /\ bufs[cursors[k].param_argv].live

(***************************************************************************)
(* Properties of xCreate / xConnect (SpecCreate).                          *)
(***************************************************************************)
Returned == cr.pc = "returned"

\* the declaration is missing or shorter than three characters
ShortArg == cr.argc < 4 \/ Len(cr.arg) < 3

\* long enough, but not between parentheses
BadParens == ~ShortArg /\ (cr.arg[1] # "(" \/ cr.arg[Len(cr.arg)] # ")")

\* between parentheses, a statement that compiles and is not read-only
WriteStatement ==
    /\ ~ShortArg
    /\ ~BadParens
    /\ Compile(SubSeq(cr.arg, 2, Len(cr.arg) - 1)).ok
    /\ ~Compile(SubSeq(cr.arg, 2, Len(cr.arg) - 1)).readonly

NoRelation == cr.rc # SQLITE_OK /\ ~cr.declared /\ cr.ppVtab # "vtab"

\* C9 as stated: a short, an unparenthesized and a not read-only declaration
\* are each rejected with their error result and their message, without a
\* relation; short is decided before parentheses, read-only after a prepare.
C9_RejectedWithMessage ==
    Returned =>
        /\ ShortArg => /\ NoRelation
                       /\ cr.rc = SQLITE_MISUSE
                       /\ cr.pzErr = "no statement provided"
        /\ BadParens => /\ NoRelation
                        /\ cr.rc = SQLITE_MISUSE
                        /\ cr.pzErr = "statement must be parenthesized"
        /\ WriteStatement => /\ NoRelation
                             /\ cr.rc = SQLITE_ERROR
                             /\ cr.pzErr = "Statement must be read only."
        /\ cr.pzErr = "Statement must be read only." => cr.stmtMem # "none"

\* C9: a short, an unparenthesized and a not read-only declaration are each
\* rejected without a relation, with their error result and their message
\* unless an allocation failed, and then with SQLITE_NOMEM and without their
\* message; short is decided before parentheses, read-only after a prepare.
C9_RejectedWithMessageUnlessNoMem ==
    Returned =>
        /\ ShortArg => /\ NoRelation
                       /\ \/ cr.rc = SQLITE_MISUSE /\ cr.pzErr = "no statement provided"
                          \/ cr.rc = SQLITE_NOMEM /\ cr.pzErr = "null"
        /\ BadParens => /\ NoRelation
                        /\ \/ /\ cr.rc = SQLITE_MISUSE
                              /\ cr.pzErr = "statement must be parenthesized"
                           \/ cr.rc = SQLITE_NOMEM /\ cr.pzErr = "null"
        /\ WriteStatement => /\ NoRelation
                             /\ \/ /\ cr.rc = SQLITE_ERROR
                                   /\ cr.pzErr = "Statement must be read only."
                                \/ /\ cr.rc = SQLITE_NOMEM
                                   /\ cr.pzErr \in {"unset", "null", "errmsg"}
        /\ cr.pzErr = "Statement must be read only." =>
               cr.stmtMem # "none" /\ WriteStatement

\* C9 witness: the declaration "()" rejected as too short
C9_Witness ==
    /\ Returned
    /\ cr.argc = 4
    /\ cr.arg = <<"(", ")">>
    /\ cr.rc = SQLITE_MISUSE
    /\ cr.pzErr = "no statement provided"

\* C10: when xCreate returns an error, the handle and the copied text are
\* freed (once) if they were allocated, the temporary statement is finalized
\* (once) if it was prepared, the schema text is freed (once) if it was
\* built, nothing is declared and *ppVtab is not the handle.
C10_FailureReleasesEverything ==
    (Returned /\ cr.rc # SQLITE_OK) =>
        /\ cr.vtabMem \in {"none", "freed"}
        /\ cr.vtabFrees = (IF cr.vtabMem = "freed" THEN 1 ELSE 0)
        /\ cr.sqlMem \in {"none", "freed"}
        /\ cr.sqlFrees = (IF cr.sqlMem = "freed" THEN 1 ELSE 0)
        /\ cr.stmtMem \in {"none", "finalized"}
        /\ cr.stmtFinalizes = (IF cr.stmtMem = "finalized" THEN 1 ELSE 0)
        /\ cr.createMem \in {"none", "freed"}
        /\ cr.createFrees = (IF cr.createMem = "freed" THEN 1 ELSE 0)
        /\ cr.ppVtab # "vtab"
        /\ ~cr.declared

\* C10 witness: the declaration of the schema fails, with the handle, the
\* text, the statement and the schema text all to be released
C10_Witness ==
    /\ Returned
    /\ cr.rc = SQLITE_ERROR
    /\ cr.schema # << >>
    /\ cr.vtabFrees = 1
    /\ cr.sqlFrees = 1
    /\ cr.stmtFinalizes = 1
    /\ cr.createFrees = 1
    /\ cr.ppVtab = "null"

\* the query between the parentheses, as the statement service sees it
InnerQuery == Compile(SubSeq(cr.arg, 2, Len(cr.arg) - 1))

\* a parenthesized declaration whose query compiles and is read-only
ValidQuery ==
    /\ ~ShortArg
    /\ ~BadParens
    /\ InnerQuery.ok
    /\ InnerQuery.readonly

\* C11: for a valid read-only parenthesized query (and no allocation failing)
\* xCreate succeeds, num_outputs and num_inputs are the statement's column
\* and parameter counts, and the declared schema has the output columns
\* first, in statement order, then the hidden column of parameter c + 1 at
\* index num_outputs + c.
C11_ValidQueryCreates ==
    (Returned /\ ValidQuery /\ cr.rc # SQLITE_NOMEM) =>
        /\ cr.rc = SQLITE_OK
        /\ cr.declared
        /\ cr.ppVtab = "vtab"
        /\ cr.num_outputs = InnerQuery.ncols
        /\ cr.num_inputs = InnerQuery.nparams
        /\ Len(cr.schema) = cr.num_outputs + cr.num_inputs
        /\ \A i \in 1 .. cr.num_outputs :
              /\ cr.schema[i].role = "output"
              /\ cr.schema[i].ordinal = i
              /\ cr.schema[i].name = InnerQuery.names[i]
        /\ \A c \in 0 .. cr.num_inputs - 1 :
              /\ cr.schema[cr.num_outputs + c + 1].role = "hidden"
              /\ cr.schema[cr.num_outputs + c + 1].ordinal = c + 1

C20_MutexBalanced ==
    /\ cr.mutex = 0
    /\ ~cr.mutexBad
    /\ cr.mutexLeaves = cr.mutexEnters
    /\ cr.mutexEnters =
          (IF cr.sqlMem # "none" /\ cr.pc # "prepare" THEN 1 ELSE 0)
          + (IF cr.create = "ptr" /\ Returned THEN 1 ELSE 0)

\* C20 witness: the declaration failed after the prepare succeeded
C20_Witness ==
    /\ Returned
    /\ cr.rc # SQLITE_OK
    /\ cr.mutexEnters = 2
    /\ cr.mutexLeaves = 2
    /\ cr.mutex = 0

====
